---- MODULE Spec2Model ----
(***************************************************************************)
(* InngestFunction.runFn: one stateless invocation of a (possibly          *)
(* multi-step) user function against the op stack held by Inngest.         *)
(*                                                                         *)
(* The op tree is kept in an arena: `ops` is the heap of TickOp objects,   *)
(* a list of ops is a sequence of arena indices, and state.tickOps, which  *)
(* in the source aliases either state.allFoundOps or some op's tickOps     *)
(* array, is the index of the op whose array it aliases (0 for the root).  *)
(***************************************************************************)
EXTENDS Integers, Sequences, FiniteSets, TLC

\* ---------------------------------------------------------------- bounds
\* Longest op stack handed to an invocation.
MaxHist == 2

\* ------------------------------------------------------------- JS values
Undefined == [t |-> "undefined", n |-> 0, s |-> ""]
Null == [t |-> "null", n |-> 0, s |-> ""]
Num(k) == [t |-> "number", n |-> k, s |-> ""]
\* An Error object with the given message.
Err(m) == [t |-> "Error", n |-> 0, s |-> m]
\* A TypeError raised by the runtime on a property access of undefined.
TypeError == [t |-> "TypeError", n |-> 0, s |-> "Cannot read properties of undefined"]
\* A thrown value that serializeError cannot process.
Hostile(m) == [t |-> "Hostile", n |-> 0, s |-> m]
\* The plain object serializeError produces from an Error.
SerializedError(m) == [t |-> "SerializedError", n |-> 0, s |-> m]

\* serializeError(err) of serialize-error-cjs: a plain {name, message} object;
\* "throws" tells that the call itself throws.
serializeError(err) ==
  IF err.t = "Hostile"
    THEN [throws |-> TRUE, out |-> Undefined]
    ELSE [throws |-> FALSE, out |-> SerializedError(err.s)]

\* ------------------------------------------------------- user functions
Sites == {"a", "b", "c", "z"}

NoSteps == [s \in Sites |-> <<>>]

Returns(v) == [kind |-> "return", val |-> v]
Throws(v) == [kind |-> "throw", val |-> v]

\* A user function, by what it does with the step tools:
\*   sync        tools called, in order, in the synchronous first pass
\*   thenOf[s]   tools called by the continuation of step s once it fulfils
\*   catchOf[s]  tools called by the continuation of step s once it rejects
\*   late        tools called after the function suspended on something
\*               that is not a step (a timer, I/O)
\*   fns         the steps created with a thunk (tools.run); the others are
\*               thunk-less tools (waitForEvent, sleep)
\*   thunk[s]    what the thunk of s does when invoked
\*   awaits      the steps whose fulfilment the body awaits before it ends
\*   ret         how the body ends: "value" (returns data.x + 1 when
\*               readsInput, else 1) or "throw"
UserFn(sync, thenOf, catchOf, late, fns, thunk, awaits, ret, readsInput) ==
  [sync |-> sync, thenOf |-> thenOf, catchOf |-> catchOf, late |-> late,
   fns |-> fns, thunk |-> thunk,
   awaits |-> awaits, ret |-> ret, readsInput |-> readsInput]

Thunks == [s \in Sites |->
             CASE s = "a" -> Returns(Num(1))
               [] s = "b" -> Throws(Err("boom"))
               [] s = "c" -> Returns(Undefined)
               [] OTHER   -> Throws(Hostile("cyclic"))]

\* ({ event }) => event.x + 1
FnPlain == UserFn(<<>>, NoSteps, NoSteps, <<>>, {}, Thunks, {}, "value", TRUE)
\* () => { throw new Error("fail") }
FnPlainThrows == UserFn(<<>>, NoSteps, NoSteps, <<>>, {}, Thunks, {}, "throw", FALSE)
\* ({ tools }) => tools.run("a", () => 1).then(() => tools.run("b", () => { throw new Error("boom") }))
FnChain ==
  UserFn(<<"a">>, [NoSteps EXCEPT !["a"] = <<"b">>], NoSteps, <<>>,
         {"a", "b"}, Thunks, {"a", "b"}, "value", FALSE)
\* async ({ tools }) => { const w = tools.waitForEvent("z"); const a = tools.run("a", () => 1);
\*   w.then(() => tools.run("c", () => {}), () => tools.run("b", ...)); await a; await w; throw ... }
FnParallel ==
  UserFn(<<"z", "a">>, [NoSteps EXCEPT !["z"] = <<"c">>],
         [NoSteps EXCEPT !["z"] = <<"b">>], <<>>,
         {"a", "b", "c"}, Thunks, {"a", "z"}, "throw", FALSE)
\* async ({ tools }) => { await io(); tools.run("z", ...); return 1 }
FnLateLoose == UserFn(<<>>, NoSteps, NoSteps, <<"z">>, {"z"}, Thunks, {}, "value", FALSE)
\* async ({ tools }) => { await io(); await tools.run("a", () => 1); return 1 }
FnLateAwaited == UserFn(<<>>, NoSteps, NoSteps, <<"a">>, {"a"}, Thunks, {"a"}, "value", FALSE)
\* async ({ tools }) => { const a = tools.run("a", () => 1); await io(); tools.sleep("c"); await a; return 1 }
FnSyncThenLate ==
  UserFn(<<"a">>, NoSteps, NoSteps, <<"c">>, {"a"}, Thunks, {"a"}, "value", FALSE)
\* ({ tools }) => { tools.run("c", () => {}); tools.run("z", () => { throw hostile }); throw new Error("fail") }
FnTwoThenThrow ==
  UserFn(<<"c", "z">>, NoSteps, NoSteps, <<>>, {"c", "z"}, Thunks, {}, "throw", FALSE)

UserFns == {FnPlain, FnPlainThrows, FnChain, FnParallel, FnLateLoose,
            FnLateAwaited, FnSyncThenLate, FnTwoThenThrow}

\* The event payloads handed to runFn as `data`.
Inputs == {[x |-> 4], [x |-> 7]}
DefaultInput == [x |-> 4]

\* ------------------------------------------------------------ op stacks
\* Position paths of the incoming ops.
Paths == {<<>>, <<0>>, <<1>>, <<0, 0>>, <<1, 0>>}

IncomingOp(p, run, data, error) ==
  [opPosition |-> p, run |-> run, data |-> data, error |-> error]

\* Incoming ops: the three well-formed shapes (run, data, error) and the two
\* malformed ones (nothing set, data and error both set).
IncomingOps ==
  { IncomingOp(p, k[1], k[2], k[3]) :
      p \in Paths,
      k \in { <<TRUE, Undefined, Undefined>>,
              <<FALSE, Num(1), Undefined>>,
              <<FALSE, Undefined, SerializedError("boom")>>,
              <<FALSE, Undefined, Undefined>>,
              <<FALSE, Num(1), SerializedError("boom")>> } }

RECURSIVE SeqsUpTo(_, _)
SeqsUpTo(S, n) ==
  IF n = 0 THEN {<<>>}
  ELSE LET shorter == SeqsUpTo(S, n - 1)
       IN shorter \cup { Append(q, x) : q \in {r \in shorter : Len(r) = n - 1}, x \in S }

OpStacks == SeqsUpTo(IncomingOps, MaxHist)

\* ----------------------------------------------------------------- state
VARIABLES
  fn,             \* this.#fn, the user function of the InngestFunction
  data,           \* runFn's data argument
  opStack,        \* runFn's opStack argument
  pc,             \* where runFn stands: "start", "awaitUserFn", "tick", "loop", "done", "failed"
  state,          \* the state object of createStepTools
  ops,            \* the heap of TickOp objects created by the tools
  userFnPromise,  \* the promise wrapping the user function
  woken,          \* whether the user function has resumed from its non-step suspension
  toolsAtCheck,   \* state.hasUsedTools as read by runFn after the first pass
  result,         \* what the invocation returned or threw
  invoked,        \* the ops whose thunk has been invoked, in order
  readLog,        \* the op stack indices read by the replay loop, in order
  run,            \* 1 for the first invocation, 2 for a repeated one
  prev            \* the first invocation's result and op stack, once repeated

vars == <<fn, data, opStack, pc, state, ops, userFnPromise, woken,
          toolsAtCheck, result, invoked, readLog, run, prev>>

Pending == [status |-> "pending", value |-> Undefined]
NoResult == [type |-> "none", data |-> Undefined, hasData |-> FALSE,
             error |-> Undefined, hasError |-> FALSE, ops |-> <<>>]

\* ---------------------------------------------------------- step tools
\* createStepTools(): the fresh state handed to the tools; tickOps starts
\* as an alias of allFoundOps.
createStepTools ==
  [hasUsedTools |-> FALSE, pos |-> -1, allFoundOps |-> <<>>, tickOps |-> 0,
   userFnToRun |-> 0]

\* A tool called for step `site`: flags the use of tools and pushes a new
\* pending op onto the array state.tickOps aliases. S is [state, ops].
Tool(S, f, site) ==
  LET id == Len(S.ops) + 1
      op == [id |-> site, fn |-> site \in f.fns, tickOps |-> <<>>,
             settled |-> "pending", value |-> Undefined, ran |-> FALSE]
      heap == Append(S.ops, op)
  IN IF S.state.tickOps = 0
       THEN [state |-> [S.state EXCEPT !.hasUsedTools = TRUE,
                                       !.allFoundOps = Append(@, id)],
             ops |-> heap]
       ELSE [state |-> [S.state EXCEPT !.hasUsedTools = TRUE],
             ops |-> [heap EXCEPT ![S.state.tickOps].tickOps = Append(@, id)]]

\* The user function calling the tools for `sites`, in order.
RECURSIVE CallTools(_, _, _)
CallTools(S, f, sites) ==
  IF sites = <<>> THEN S
  ELSE CallTools(Tool(S, f, Head(sites)), f, Tail(sites))

\* Mutant: the catch around the user function resolves instead of rejecting.
Body_ResolvesOnThrow(f, d, heap, awake) ==
  LET bad == { i \in DOMAIN heap : heap[i].id \in f.awaits /\ heap[i].settled = "rejected" }
      good == { heap[i].id : i \in { j \in DOMAIN heap : heap[j].settled = "fulfilled" } }
  IN IF f.late # <<>> /\ ~awake THEN Pending
     ELSE IF bad # {}
       THEN [status |-> "fulfilled", value |-> Undefined]
     ELSE IF f.awaits \subseteq good
       THEN IF f.ret = "throw"
              THEN [status |-> "fulfilled", value |-> Undefined]
              ELSE [status |-> "fulfilled",
                    value |-> IF f.readsInput THEN Num(d.x + 1) ELSE Num(1)]
     ELSE Pending

\* The state of the promise of the user function f, given the ops created
\* so far: rejected once an awaited step rejected, settled as the body
\* ends once every awaited step fulfilled, pending otherwise.
Body(f, d, heap, awake) ==
  LET made == { heap[i].id : i \in DOMAIN heap }
      bad == { i \in DOMAIN heap : heap[i].id \in f.awaits /\ heap[i].settled = "rejected" }
      good == { heap[i].id : i \in { j \in DOMAIN heap : heap[j].settled = "fulfilled" } }
  IN IF f.late # <<>> /\ ~awake THEN Pending
     ELSE IF bad # {}
       THEN [status |-> "rejected", value |-> heap[CHOOSE i \in bad : \A j \in bad : i <= j].value]
     ELSE IF f.awaits \subseteq good
       THEN IF f.ret = "throw"
              THEN [status |-> "rejected", value |-> Err("fail")]
              ELSE [status |-> "fulfilled",
                    value |-> IF f.readsInput THEN Num(d.x + 1) ELSE Num(1)]
     ELSE Pending

\* ---------------------------------------------------------- replay loop
\* What walking incomingOp.opPosition from element i (1-based here) does,
\* targetOps being the array the element indexes:
\*   "typeError"  a property of an undefined op was read
\*   "noFn"       a run op resolved to an op without fn
\*   "run"        op is selected as state.userFnToRun
\*   "settle"     op.resolve or op.reject was called
\* Mutants of the walk: one that selects the thunk whatever the run flag,
\* one that clamps an index past the end of the array to its last op, one
\* that selects an op without checking that it has a thunk.
RECURSIVE WalkOpPosition_AnyOpRuns(_, _, _, _)
WalkOpPosition_AnyOpRuns(heap, incomingOp, i, targetOps) ==
  LET index == incomingOp.opPosition[i]
      currentOp == IF index + 1 \in DOMAIN targetOps THEN targetOps[index + 1] ELSE 0
      isLastAccess == Len(incomingOp.opPosition) = i
  IN IF currentOp = 0 THEN [kind |-> "typeError", op |-> 0]
     ELSE IF ~isLastAccess
       THEN WalkOpPosition_AnyOpRuns(heap, incomingOp, i + 1, heap[currentOp].tickOps)
     ELSE IF ~heap[currentOp].fn
       THEN [kind |-> "noFn", op |-> currentOp]
       ELSE [kind |-> "run", op |-> currentOp]

RECURSIVE WalkOpPosition_Clamped(_, _, _, _)
WalkOpPosition_Clamped(heap, incomingOp, i, targetOps) ==
  LET index == incomingOp.opPosition[i]
      currentOp == IF index + 1 \in DOMAIN targetOps THEN targetOps[index + 1]
                   ELSE IF targetOps # <<>> THEN targetOps[Len(targetOps)]
                   ELSE 0
      isLastAccess == Len(incomingOp.opPosition) = i
  IN IF currentOp = 0 THEN [kind |-> "noOp", op |-> 0]
     ELSE IF ~isLastAccess
       THEN WalkOpPosition_Clamped(heap, incomingOp, i + 1, heap[currentOp].tickOps)
     ELSE IF incomingOp.run
       THEN IF ~heap[currentOp].fn
              THEN [kind |-> "noFn", op |-> currentOp]
              ELSE [kind |-> "run", op |-> currentOp]
     ELSE [kind |-> "settle", op |-> currentOp]

RECURSIVE WalkOpPosition_NoFnCheck(_, _, _, _)
WalkOpPosition_NoFnCheck(heap, incomingOp, i, targetOps) ==
  LET index == incomingOp.opPosition[i]
      currentOp == IF index + 1 \in DOMAIN targetOps THEN targetOps[index + 1] ELSE 0
      isLastAccess == Len(incomingOp.opPosition) = i
  IN IF currentOp = 0 THEN [kind |-> "typeError", op |-> 0]
     ELSE IF ~isLastAccess
       THEN WalkOpPosition_NoFnCheck(heap, incomingOp, i + 1, heap[currentOp].tickOps)
     ELSE IF incomingOp.run
       THEN [kind |-> "run", op |-> currentOp]
     ELSE [kind |-> "settle", op |-> currentOp]

RECURSIVE WalkOpPosition(_, _, _, _)
WalkOpPosition(heap, incomingOp, i, targetOps) ==
  LET index == incomingOp.opPosition[i]
      currentOp == IF index + 1 \in DOMAIN targetOps THEN targetOps[index + 1] ELSE 0
      isLastAccess == Len(incomingOp.opPosition) = i
  IN IF currentOp = 0 THEN [kind |-> "typeError", op |-> 0]
     ELSE IF ~isLastAccess
       THEN WalkOpPosition(heap, incomingOp, i + 1, heap[currentOp].tickOps)
     ELSE IF incomingOp.run
       THEN IF ~heap[currentOp].fn
              THEN [kind |-> "noFn", op |-> currentOp]
              ELSE [kind |-> "run", op |-> currentOp]
     ELSE [kind |-> "settle", op |-> currentOp]

\* The walk of a whole incoming op; an empty position path leaves currentOp
\* undefined, which the loop reports after the walk.
Walk(heap, st, incomingOp) ==
  IF incomingOp.opPosition = <<>>
    THEN [kind |-> "noOp", op |-> 0]
    ELSE WalkOpPosition(heap, incomingOp, 1, st.allFoundOps)

\* Mutant: the op is resolved with incomingOp.data whatever the op carries.
SettleOp_AlwaysResolves(op, incomingOp) ==
  IF op.settled # "pending" THEN op
  ELSE [op EXCEPT !.settled = "fulfilled", !.value = incomingOp.data]

\* Mutant: the branch tests the error, an op with an error is rejected and
\* any other op resolved with its data.
SettleOp_ErrorFirst(op, incomingOp) ==
  IF op.settled # "pending" THEN op
  ELSE IF incomingOp.error.t # "undefined"
    THEN [op EXCEPT !.settled = "rejected", !.value = incomingOp.error]
    ELSE [op EXCEPT !.settled = "fulfilled", !.value = incomingOp.data]

\* currentOp.resolve(incomingOp.data) or currentOp.reject(incomingOp.error):
\* a promise settles once, later calls change nothing.
SettleOp(op, incomingOp) ==
  IF op.settled # "pending" THEN op
  ELSE IF incomingOp.data.t # "undefined"
    THEN [op EXCEPT !.settled = "fulfilled", !.value = incomingOp.data]
    ELSE [op EXCEPT !.settled = "rejected", !.value = incomingOp.error]

\* Mutant: the chain has no catch, the thunk's error leaves runFn.
RunUserFnToRun_NoCatch(thunk) ==
  IF thunk.kind = "return"
    THEN [type |-> "multi-run", data |-> IF thunk.val.t = "undefined" THEN Null ELSE thunk.val,
          hasData |-> TRUE, error |-> Undefined, hasError |-> FALSE, ops |-> <<>>]
    ELSE [type |-> "throw", data |-> Undefined, hasData |-> FALSE,
          error |-> thunk.val, hasError |-> TRUE, ops |-> <<>>]

\* Mutant: the thrown value is reported as it is, never serialized.
RunUserFnToRun_RawError(thunk) ==
  IF thunk.kind = "return"
    THEN [NoResult EXCEPT !.type = "multi-run", !.hasData = TRUE,
                          !.data = IF thunk.val.t = "undefined" THEN Null ELSE thunk.val]
    ELSE [NoResult EXCEPT !.type = "multi-run", !.hasError = TRUE,
                          !.error = thunk.val]

\* Mutant: serializeError is called outside any try, its failure leaves runFn.
RunUserFnToRun_SerializeUnguarded(thunk) ==
  IF thunk.kind = "return"
    THEN [NoResult EXCEPT !.type = "multi-run", !.hasData = TRUE,
                          !.data = IF thunk.val.t = "undefined" THEN Null ELSE thunk.val]
    ELSE IF serializeError(thunk.val).throws
      THEN [NoResult EXCEPT !.type = "throw", !.hasError = TRUE,
                            !.error = TypeError]
      ELSE [NoResult EXCEPT !.type = "multi-run", !.hasError = TRUE,
                            !.error = serializeError(thunk.val).out]

\* Mutant: a thunk's undefined is reported as it is.
RunUserFnToRun_KeepsUndefined(thunk) ==
  IF thunk.kind = "return"
    THEN [NoResult EXCEPT !.type = "multi-run", !.hasData = TRUE,
                          !.data = thunk.val]
    ELSE [NoResult EXCEPT !.type = "multi-run", !.hasError = TRUE,
                          !.error = IF serializeError(thunk.val).throws
                                      THEN thunk.val
                                      ELSE serializeError(thunk.val).out]

\* The promise chain around userFnToRun(): {data} with undefined turned
\* into null, or {error} with the error serialized when that is possible.
RunUserFnToRun(thunk) ==
  IF thunk.kind = "return"
    THEN [NoResult EXCEPT !.type = "multi-run", !.hasData = TRUE,
                          !.data = IF thunk.val.t = "undefined" THEN Null ELSE thunk.val]
    ELSE [NoResult EXCEPT !.type = "multi-run", !.hasError = TRUE,
                          !.error = IF serializeError(thunk.val).throws
                                      THEN thunk.val
                                      ELSE serializeError(thunk.val).out]

\* Mutant: the selection falls through to the assignment of state.tickOps.
Select_Descends(st, op) == [st EXCEPT !.userFnToRun = op, !.tickOps = op]

\* state.userFnToRun = currentOp.fn, then both breaks: state.tickOps is not
\* assigned.
Select(st, op) == [st EXCEPT !.userFnToRun = op]

\* Mutant: the active array is not moved to the replayed op.
Descend_Stays(st, op) == st

\* state.tickOps = currentOp.tickOps
Descend(st, op) == [st EXCEPT !.tickOps = op]

\* Mutants of discoveredOps: one that sets run on every op, one that maps
\* state.allFoundOps instead of state.tickOps.
DiscoveredOps_AllRun(heap, st, stack) ==
  LET tickOps == IF st.tickOps = 0 THEN st.allFoundOps ELSE heap[st.tickOps].tickOps
      base == IF stack = <<>> THEN <<>> ELSE stack[Len(stack)].opPosition
  IN [index \in 1..Len(tickOps) |->
        [op |-> IF heap[tickOps[index]].fn THEN "Step" ELSE "Wait",
         run |-> TRUE,
         id |-> heap[tickOps[index]].id,
         opPosition |-> Append(base, index - 1)]]

DiscoveredOps_FromRoot(heap, st, stack) ==
  LET tickOps == st.allFoundOps
      base == IF stack = <<>> THEN <<>> ELSE stack[Len(stack)].opPosition
  IN [index \in 1..Len(tickOps) |->
        [op |-> IF heap[tickOps[index]].fn THEN "Step" ELSE "Wait",
         run |-> heap[tickOps[index]].fn,
         id |-> heap[tickOps[index]].id,
         opPosition |-> Append(base, index - 1)]]

\* Mutant: each op is placed at its own index, under no parent position.
DiscoveredOps_Flat(heap, st, stack) ==
  LET tickOps == IF st.tickOps = 0 THEN st.allFoundOps ELSE heap[st.tickOps].tickOps
  IN [index \in 1..Len(tickOps) |->
        [op |-> IF heap[tickOps[index]].fn THEN "Step" ELSE "Wait",
         run |-> heap[tickOps[index]].fn,
         id |-> heap[tickOps[index]].id,
         opPosition |-> <<index - 1>>]]

\* discoveredOps: the ops of the array state.tickOps aliases, each placed
\* under the position of the last incoming op.
DiscoveredOps(heap, st, stack) ==
  LET tickOps == IF st.tickOps = 0 THEN st.allFoundOps ELSE heap[st.tickOps].tickOps
      base == IF stack = <<>> THEN <<>> ELSE stack[Len(stack)].opPosition
  IN [index \in 1..Len(tickOps) |->
        [op |-> IF heap[tickOps[index]].fn THEN "Step" ELSE "Wait",
         run |-> heap[tickOps[index]].fn,
         id |-> heap[tickOps[index]].id,
         opPosition |-> Append(base, index - 1)]]

\* The continuations made runnable by settled ops run: each calls its tools
\* against the array state.tickOps aliases at that time.
RECURSIVE RunContinuations(_, _)
RunContinuations(S, f) ==
  LET ready == { i \in DOMAIN S.ops : S.ops[i].settled # "pending" /\ ~S.ops[i].ran }
  IN IF ready = {} THEN S
     ELSE LET i == CHOOSE k \in ready : \A j \in ready : k <= j
              sites == IF S.ops[i].settled = "fulfilled"
                         THEN f.thenOf[S.ops[i].id]
                         ELSE f.catchOf[S.ops[i].id]
              marked == [S EXCEPT !.ops[i].ran = TRUE]
          IN RunContinuations(CallTools(marked, f, sites), f)

\* -------------------------------------------------------------- actions
Init ==
  /\ fn \in UserFns
  /\ data \in Inputs
  /\ (~fn.readsInput => data = DefaultInput)
  /\ opStack \in OpStacks
  /\ pc = "start"
  /\ state = createStepTools
  /\ ops = <<>>
  /\ userFnPromise = Pending
  /\ woken = FALSE
  /\ toolsAtCheck = FALSE
  /\ result = NoResult
  /\ invoked = <<>>
  /\ readLog = <<>>
  /\ run = 1
  /\ prev = [result |-> NoResult, invoked |-> <<>>, opStack |-> <<>>]

\* Mutant: the tools are created once and shared by the invocations.
NewTools_Shared(S) == S

\* const [tools, state] = createStepTools(): every invocation starts from
\* fresh tools, whatever an earlier invocation (S, as [state, ops]) left.
NewTools(S) == [state |-> createStepTools, ops |-> <<>>]

\* Mutant: the check is dropped and the loop is always entered.
IsSingle_Never(st) == FALSE

\* if (!state.hasUsedTools): whether runFn awaits the user function as a
\* single-step function instead of entering the loop.
IsSingle(st) == ~st.hasUsedTools

\* Mutant: the promise is returned without being awaited.
Single_NotAwaited(v) ==
  [type |-> "single", data |-> [t |-> "Promise", n |-> 0, s |-> ""], hasData |-> TRUE,
   error |-> Undefined, hasError |-> FALSE, ops |-> <<>>]

\* ["single", await userFnPromise]
Single(v) == [NoResult EXCEPT !.type = "single", !.hasData = TRUE, !.data = v]

\* An error thrown out of runFn.
Thrown(e) == [NoResult EXCEPT !.type = "throw", !.hasError = TRUE, !.error = e]

\* runFn up to its first await: the tools are created, the user function
\* runs its synchronous first pass, and hasUsedTools decides between
\* awaiting the function and entering the loop (whose first pass, at
\* pos -1, reads no op).
Invoke ==
  /\ pc = "start"
  /\ LET S == CallTools(NewTools([state |-> state, ops |-> ops]), fn, fn.sync)
     IN /\ state' = S.state
        /\ ops' = S.ops
        /\ userFnPromise' = Body(fn, data, S.ops, FALSE)
        /\ toolsAtCheck' = S.state.hasUsedTools
        /\ pc' = IF IsSingle(S.state) THEN "awaitUserFn" ELSE "tick"
  /\ woken' = FALSE
  /\ result' = NoResult
  /\ invoked' = <<>>
  /\ readLog' = <<>>
  /\ UNCHANGED <<fn, data, opStack, run, prev>>

\* return ["single", await userFnPromise]
AwaitUserFn ==
  /\ pc = "awaitUserFn"
  /\ userFnPromise.status # "pending"
  /\ IF userFnPromise.status = "fulfilled"
       THEN /\ result' = Single(userFnPromise.value)
            /\ pc' = "done"
       ELSE /\ result' = Thrown(userFnPromise.value)
            /\ pc' = "failed"
  /\ UNCHANGED <<fn, data, opStack, state, ops, userFnPromise, woken,
                 toolsAtCheck, invoked, readLog, run, prev>>

\* The user function resumes from its non-step suspension while runFn
\* awaits, and calls its late tools.
UserFnResume ==
  /\ pc \in {"awaitUserFn", "tick"}
  /\ fn.late # <<>>
  /\ ~woken
  /\ LET S == CallTools([state |-> state, ops |-> ops], fn, fn.late)
     IN /\ state' = S.state
        /\ ops' = S.ops
        /\ userFnPromise' = Body(fn, data, S.ops, TRUE)
  /\ woken' = TRUE
  /\ UNCHANGED <<fn, data, opStack, pc, toolsAtCheck, result, invoked, readLog,
                 run, prev>>

\* One pass of the loop body at pos >= 0, up to the await; on a run op the
\* loop is left and the selected thunk runs to its result.
ReplayOp ==
  /\ pc = "loop"
  /\ LET incomingOp == opStack[state.pos + 1]
         w == Walk(ops, state, incomingOp)
     IN /\ readLog' = Append(readLog, state.pos)
        /\ CASE w.kind = "typeError" ->
                  /\ result' = Thrown(TypeError)
                  /\ pc' = "failed"
                  /\ UNCHANGED <<state, ops, invoked>>
             [] w.kind = "noFn" ->
                  /\ result' = Thrown(Err("Bad stack; no fn to execute; re-execute pls"))
                  /\ pc' = "failed"
                  /\ UNCHANGED <<state, ops, invoked>>
             [] w.kind = "noOp" ->
                  /\ result' = Thrown(Err("Bad stack; fn might have changed; re-execute"))
                  /\ pc' = "failed"
                  /\ UNCHANGED <<state, ops, invoked>>
             [] w.kind = "run" ->
                  /\ state' = Select(state, w.op)
                  /\ invoked' = Append(invoked, w.op)
                  /\ result' = RunUserFnToRun(fn.thunk[ops[w.op].id])
                  /\ pc' = "done"
                  /\ UNCHANGED ops
             [] w.kind = "settle" ->
                  /\ ops' = [ops EXCEPT ![w.op] = SettleOp(@, incomingOp)]
                  /\ state' = Descend(state, w.op)
                  /\ pc' = "tick"
                  /\ UNCHANGED <<result, invoked>>
  /\ UNCHANGED <<fn, data, opStack, userFnPromise, woken, toolsAtCheck, run, prev>>

\* await resolveNextTick(); state.pos++: the runnable continuations run,
\* then the loop either goes on or is left with no thunk selected, and the
\* ops found at state.tickOps are returned.
ResolveNextTick ==
  /\ pc = "tick"
  /\ LET S == RunContinuations([state |-> state, ops |-> ops], fn)
         st == [S.state EXCEPT !.pos = @ + 1]
     IN /\ state' = st
        /\ ops' = S.ops
        /\ userFnPromise' = Body(fn, data, S.ops, woken)
        /\ IF st.pos < Len(opStack)
             THEN /\ pc' = "loop"
                  /\ UNCHANGED result
             ELSE /\ pc' = "done"
                  /\ result' = [NoResult EXCEPT !.type = "multi-discovery",
                                                !.ops = DiscoveredOps(S.ops, st, opStack)]
  /\ UNCHANGED <<fn, data, opStack, woken, toolsAtCheck, invoked, readLog, run, prev>>

\* The same function is invoked again with the same arguments.
Reinvoke ==
  /\ pc \in {"done", "failed"}
  /\ run = 1
  /\ run' = 2
  /\ prev' = [result |-> result, invoked |-> invoked, opStack |-> opStack]
  /\ pc' = "start"
  /\ UNCHANGED <<fn, data, opStack, state, ops, userFnPromise, woken,
                 toolsAtCheck, result, invoked, readLog>>

Next ==
  \/ Invoke
  \/ AwaitUserFn
  \/ UserFnResume
  \/ ReplayOp
  \/ ResolveNextTick

Spec == Init /\ [][Next]_vars

NextTwice ==
  \/ Next
  \/ Reinvoke

SpecTwice == Init /\ [][NextTwice]_vars

\* --------------------------------------------------------------- claims
\* The op a position path leads to in the op tree as it stands, 0 when some
\* index of the path has no op (or the path is empty).
RECURSIVE OpUnder(_, _, _)
OpUnder(heap, list, path) ==
  IF path = <<>> \/ Head(path) + 1 > Len(list) THEN 0
  ELSE IF Len(path) = 1 THEN list[Head(path) + 1]
  ELSE OpUnder(heap, heap[list[Head(path) + 1]].tickOps, Tail(path))

OpAt(path) == OpUnder(ops, state.allFoundOps, path)

Finished == pc \in {"done", "failed"}
Returned == pc = "done"

\* The index of the first incoming op with the run flag, 0 when there is none.
FirstRun ==
  IF \E k \in DOMAIN opStack : opStack[k].run
    THEN CHOOSE k \in DOMAIN opStack :
           opStack[k].run /\ \A j \in 1..(k - 1) : ~opStack[j].run
    ELSE 0

CarriesResult(incomingOp) ==
  incomingOp.data.t # "undefined" \/ incomingOp.error.t # "undefined"

\* C1 as stated: at most one thunk is invoked, it is the thunk of the op the
\* first run-flagged incoming op points at, the thunk of an op for which the
\* op stack holds (and the loop has replayed) a value or an error is never
\* invoked, and no thunk is invoked when the outcome is single or
\* multi-discovery.
C1_AsStated ==
  /\ Len(invoked) <= 1
  /\ invoked # <<>> => FirstRun # 0 /\ OpAt(opStack[FirstRun].opPosition) = invoked[1]
  /\ \A k \in DOMAIN opStack :
       (CarriesResult(opStack[k]) /\ \E j \in DOMAIN readLog : readLog[j] = k - 1) =>
         \A i \in DOMAIN invoked : OpAt(opStack[k].opPosition) # invoked[i]
  /\ result.type \in {"single", "multi-discovery"} => invoked = <<>>

\* C1 amended: at most one thunk is invoked, it is the thunk of the op the
\* first run-flagged incoming op points at, no incoming op without the run
\* flag (one carrying a value or an error) makes a thunk run, every incoming
\* op read before the selecting one is without the run flag, and no thunk is
\* invoked when the outcome is single or multi-discovery.
C1_OnlyFirstRunOpInvoked ==
  /\ Len(invoked) <= 1
  /\ invoked # <<>> =>
       /\ FirstRun # 0
       /\ OpAt(opStack[FirstRun].opPosition) = invoked[1]
       /\ state.pos + 1 = FirstRun
       /\ \A k \in 1..state.pos : ~opStack[k].run
  /\ result.type \in {"single", "multi-discovery"} => invoked = <<>>

\* C1 witness: a thunk ran on the second incoming op, after a value was replayed.
C1_Witness ==
  /\ pc = "done"
  /\ Len(invoked) = 1
  /\ Len(opStack) = 2
  /\ ~opStack[1].run
  /\ opStack[1].data.t = "number"
  /\ opStack[2].run

\* C2: an invocation that returns has exactly one of the three outcome types:
\* single exactly when hasUsedTools was false at the check, multi-run exactly
\* when it was true and the loop selected a thunk, multi-discovery exactly
\* when it was true and the op stack was exhausted with no thunk selected.
C2_OutcomeTrichotomy ==
  Returned =>
    /\ result.type \in {"single", "multi-run", "multi-discovery"}
    /\ (result.type = "single") <=> ~toolsAtCheck
    /\ (result.type = "multi-run") <=> (toolsAtCheck /\ state.userFnToRun # 0)
    /\ (result.type = "multi-discovery") <=>
         (toolsAtCheck /\ state.userFnToRun = 0 /\ state.pos >= Len(opStack))
    /\ (result.type = "multi-run") => state.pos < Len(opStack)

\* C2 witness: each outcome is produced (the multi-discovery one here, after
\* both incoming ops were replayed; the others are reached in C1's and C3's).
C2_Witness ==
  /\ Returned
  /\ result.type = "multi-discovery"
  /\ toolsAtCheck
  /\ state.pos = 2

\* The user function makes no tool call at any point.
CallsNoTool == fn.sync = <<>> /\ fn.late = <<>>

\* C3: whatever the input and the op stack, a user function that makes no
\* tool call and resolves yields single with the value it resolved to, and
\* the replay loop does not run: no incoming op is read and no op is settled.
C3_NoToolsIsSingle ==
  CallsNoTool =>
    /\ Finished /\ fn.ret = "value" =>
         /\ result.type = "single"
         /\ result.hasData /\ ~result.hasError
         /\ result.data = Num(IF fn.readsInput THEN data.x + 1 ELSE 1)
    /\ readLog = <<>>
    /\ state.pos = -1
    /\ ops = <<>>
    /\ pc \notin {"tick", "loop"}

\* C3 witness: Scenario A with a non-empty op stack.
C3_Witness ==
  /\ Returned
  /\ fn = FnPlain
  /\ data.x = 4
  /\ result.type = "single"
  /\ result.data = Num(5)
  /\ Len(opStack) = 2

\* The user function has called a step tool in this invocation: in its first
\* pass, or after it resumed from a non-step suspension.
ToolCalled == fn.sync # <<>> \/ (woken /\ fn.late # <<>>)

\* C4 as stated: single is returned only when the user function called no
\* step tool at any point of the invocation, the part after a non-step
\* suspension included.
C4_SingleOnlyWithoutTools ==
  (Returned /\ result.type = "single") => ~ToolCalled

\* The entries a multi-discovery result must hold for the ops of `list`
\* placed under position `base`.
Entries(list, base) ==
  [k \in 1..Len(list) |->
     [op |-> IF ops[list[k]].id \in fn.fns THEN "Step" ELSE "Wait",
      run |-> ops[list[k]].id \in fn.fns,
      id |-> ops[list[k]].id,
      opPosition |-> base \o <<k - 1>>]]

\* The steps a continuation of another step calls.
ContinuationSites ==
  UNION { { fn.thenOf[s][i] : i \in DOMAIN fn.thenOf[s] } \cup
          { fn.catchOf[s][i] : i \in DOMAIN fn.catchOf[s] } : s \in Sites }

\* C5: with an empty op stack and tools called in the synchronous first pass,
\* the outcome is multi-discovery; it lists the steps called before the first
\* unresolved continuation (those of the first pass, then those called after
\* a non-step suspension that ended in time), in call order, the i-th at
\* position [i] counting from 0, with run set exactly for the steps that have
\* a thunk; steps only a continuation of a step calls are not listed.
C5_EmptyStackDiscovery ==
  (Finished /\ opStack = <<>> /\ fn.sync # <<>>) =>
    /\ result.type = "multi-discovery"
    /\ Len(result.ops) = Len(fn.sync) + (IF woken THEN Len(fn.late) ELSE 0)
    /\ \A i \in DOMAIN result.ops :
         /\ result.ops[i].id = (fn.sync \o fn.late)[i]
         /\ result.ops[i].opPosition = <<i - 1>>
         /\ result.ops[i].run = (result.ops[i].id \in fn.fns)
         /\ result.ops[i].id \notin ContinuationSites

\* C5 witness: two steps found, one with a thunk and one without, by a
\* function that calls further steps in a continuation.
C5_Witness ==
  /\ Returned
  /\ opStack = <<>>
  /\ fn = FnParallel
  /\ Len(result.ops) = 2
  /\ ~result.ops[1].run
  /\ result.ops[2].run
  /\ result.ops[2].opPosition = <<1>>

\* C6: when a non-empty op stack is exhausted with no thunk selected, the
\* multi-discovery result lists exactly the children of the op the last
\* incoming op points at, in registration order, the k-th (from 0) at that
\* incoming op's position followed by k.
C6_DiscoveryUnderLastOp ==
  (Returned /\ result.type = "multi-discovery" /\ opStack # <<>>) =>
    LET last == opStack[Len(opStack)].opPosition
    IN /\ OpAt(last) # 0
       /\ result.ops = Entries(ops[OpAt(last)].tickOps, last)

\* C6 witness: a step registered by a continuation is found under the
\* replayed op while another root op stays unlisted.
C6_Witness ==
  /\ Returned
  /\ result.type = "multi-discovery"
  /\ Len(opStack) = 1
  /\ Len(state.allFoundOps) = 2
  /\ Len(result.ops) = 1
  /\ result.ops[1].opPosition = <<0, 0>>

RunAt(p) == IncomingOp(p, TRUE, Undefined, Undefined)

\* C7: once the loop selected a thunk the invocation returns multi-run with
\* either data or error, never both and never neither: data (the value, null
\* for undefined) when the thunk returns, error when it throws; the
\* invocation itself does not fail. Scenario C gives {data: 1}.
C7_StepResultValueXorError ==
  (invoked # <<>> \/ state.userFnToRun # 0) =>
    LET thunk == fn.thunk[ops[state.userFnToRun].id]
    IN /\ Returned
       /\ invoked = <<state.userFnToRun>>
       /\ result.type = "multi-run"
       /\ result.hasData # result.hasError
       /\ thunk.kind = "return" =>
            /\ result.hasData
            /\ result.data = (IF thunk.val = Undefined THEN Null ELSE thunk.val)
       /\ thunk.kind = "throw" => result.hasError /\ result.error.s = thunk.val.s
       /\ (fn = FnChain /\ opStack = <<RunAt(<<0>>)>>) =>
            result.hasData /\ result.data = Num(1)

\* C7 witness: a thunk that throws was run and reported as the step's error.
C7_Witness ==
  /\ Returned
  /\ invoked # <<>>
  /\ fn.thunk[ops[invoked[1]].id].kind = "throw"
  /\ result.type = "multi-run"
  /\ result.hasError
  /\ result.error = SerializedError("boom")

\* The incoming op the loop is about to read.
NextOp == opStack[state.pos + 1]

\* C8: an incoming op (run, value or error alike) whose position path names,
\* at an intermediate or at the final element, a child index with no op in
\* the tree as it stands when the op is walked makes the invocation fail:
\* nothing is returned, no op is settled, no thunk is selected.
C8_MissingIndexIsFatal ==
  [][ (pc = "loop" /\ NextOp.opPosition # <<>> /\ OpAt(NextOp.opPosition) = 0) =>
        /\ pc' = "failed"
        /\ result'.type = "throw"
        /\ ops' = ops
        /\ state' = state
        /\ invoked' = invoked ]_vars

\* C8 witness: the second incoming op named a missing index and the
\* invocation failed on it.
C8_Witness ==
  /\ pc = "failed"
  /\ result.error = TypeError
  /\ readLog = <<0, 1>>
  /\ Len(opStack[2].opPosition) = 2
  /\ OpAt(opStack[2].opPosition) = 0
  /\ OpAt(opStack[1].opPosition) # 0

\* C9: a run-flagged incoming op that resolves to an op without a thunk makes
\* the invocation fail: no thunk is selected or invoked, nothing is returned,
\* and no later incoming op is read.
C9_RunWithoutFnIsFatal ==
  [][ /\ (pc = "loop" /\ NextOp.run /\ OpAt(NextOp.opPosition) # 0
                      /\ ops[OpAt(NextOp.opPosition)].id \notin fn.fns) =>
           /\ pc' = "failed"
           /\ result' = Thrown(Err("Bad stack; no fn to execute; re-execute pls"))
           /\ state'.userFnToRun = 0
           /\ invoked' = <<>>
      /\ pc = "failed" => (pc' = "failed" /\ readLog' = readLog /\ result' = result) ]_vars

\* C9 witness: the first of two incoming ops asked to run a thunk-less op;
\* the second was never read.
C9_Witness ==
  /\ pc = "failed"
  /\ result.error = Err("Bad stack; no fn to execute; re-execute pls")
  /\ Len(opStack) = 2
  /\ readLog = <<0>>

\* C10: a deterministic function body invoked twice with the same op stack
\* gives the same result both times (the same selected thunk, the same
\* discovered ops at the same positions, or the same error), and the op
\* stack is what it was before the invocations.
C10_SameResultTwice ==
  (run = 2 /\ Finished /\ fn.late = <<>>) =>
    /\ result = prev.result
    /\ invoked = prev.invoked
    /\ opStack = prev.opStack

\* C10 witness: a second invocation that replayed a value and found a step again.
C10_Witness ==
  /\ run = 2
  /\ Returned
  /\ fn = FnChain
  /\ result.type = "multi-discovery"
  /\ Len(result.ops) = 1
  /\ Len(readLog) = 1

\* The loop body is about to settle op n: the next incoming op has no run
\* flag and its position leads to n.
Settles(n) ==
  /\ pc = "loop"
  /\ ~NextOp.run
  /\ n # 0
  /\ OpAt(NextOp.opPosition) = n

\* C11: an incoming op that carries an error and no value rejects the pending
\* op it points at with that very error, which is what the code awaiting the
\* step then observes; an incoming op that carries a value fulfils the pending
\* op with that value. An op already settled keeps what it was settled with.
C11_ReplaySettlesWithRecord ==
  [][ \A n \in DOMAIN ops :
        Settles(n) =>
          /\ (ops[n].settled = "pending" /\ NextOp.data = Undefined
                /\ NextOp.error # Undefined) =>
               /\ ops'[n].settled = "rejected"
               /\ ops'[n].value = NextOp.error
          /\ (ops[n].settled = "pending" /\ NextOp.data # Undefined) =>
               /\ ops'[n].settled = "fulfilled"
               /\ ops'[n].value = NextOp.data
          /\ ops[n].settled # "pending" => ops'[n] = ops[n] ]_vars

\* C11 witness: the error that thunk b threw, stored serialized in the op
\* stack, has rejected op a and the function awaiting it.
C11_Witness ==
  /\ fn = FnChain
  /\ ops # <<>>
  /\ ops[1].settled = "rejected"
  /\ ops[1].value = SerializedError("boom")
  /\ userFnPromise = [status |-> "rejected", value |-> SerializedError("boom")]

DataAt(p, v) == IncomingOp(p, FALSE, v, Undefined)

\* Scenario D: run a, then run b in the continuation of a; the op stack holds
\* the value 1 for the op at [0], and the invocation has returned.
ScenarioD ==
  /\ fn = FnChain
  /\ opStack = <<DataAt(<<0>>, Num(1))>>
  /\ Returned

\* C12 as stated: Scenario D yields a discovery of exactly one op, b, with
\* the run flag set and position [1].
C12_AsStated ==
  ScenarioD =>
    /\ result.type = "multi-discovery"
    /\ result.ops = <<[op |-> "Step", run |-> TRUE, id |-> "b",
                       opPosition |-> <<1>>]>>

\* C12 amended: Scenario D yields a discovery of exactly one op, b, with the
\* run flag set and position [0, 0]: index 0 under the position [0] of the
\* last incoming op.
C12_ScenarioD ==
  ScenarioD =>
    /\ result.type = "multi-discovery"
    /\ result.ops = <<[op |-> "Step", run |-> TRUE, id |-> "b",
                       opPosition |-> <<0, 0>>]>>

\* C12 witness: Scenario D has returned its discovery, op a fulfilled with 1.
C12_Witness ==
  /\ ScenarioD
  /\ ops[1].settled = "fulfilled"
  /\ ops[1].value = Num(1)
  /\ Len(result.ops) = 1

\* The step result Scenario E expects: the serialized error of b's thunk.
StepResultBoom ==
  /\ Returned
  /\ result.type = "multi-run"
  /\ result.hasError
  /\ ~result.hasData
  /\ result.error = SerializedError("boom")

\* C13 as stated: with the op stack [{opPosition: [1], run: true}] the
\* function of Scenario D, whose thunk b throws Error("boom"), selects and
\* runs b and returns the step result {error: serialized "boom"}; the
\* invocation does not fail.
C13_AsStated ==
  (fn = FnChain /\ opStack = <<RunAt(<<1>>)>> /\ Finished) =>
    /\ invoked # <<>>
    /\ ops[invoked[1]].id = "b"
    /\ StepResultBoom

\* C13 amended: b is the op at [0, 0] and exists once a is fulfilled, so it
\* is the op stack [{opPosition: [0], data: 1}, {opPosition: [0, 0], run:
\* true}] that selects and runs b and returns the step result {error:
\* serialized "boom"}, the invocation not failing; the op stack
\* [{opPosition: [1], run: true}] names no op and fails the invocation with
\* no thunk run.
C13_ScenarioE ==
  /\ (fn = FnChain /\ Finished
        /\ opStack = <<DataAt(<<0>>, Num(1)), RunAt(<<0, 0>>)>>) =>
       /\ Len(invoked) = 1
       /\ ops[invoked[1]].id = "b"
       /\ StepResultBoom
  /\ (fn = FnChain /\ Finished /\ opStack = <<RunAt(<<1>>)>>) =>
       /\ pc = "failed"
       /\ invoked = <<>>

\* C13 witness: b was selected by the second incoming op and its error
\* returned serialized.
C13_Witness ==
  /\ fn = FnChain
  /\ opStack = <<DataAt(<<0>>, Num(1)), RunAt(<<0, 0>>)>>
  /\ invoked # <<>>
  /\ StepResultBoom

\* C14 as stated: an invocation never stays pending for ever; as long as it
\* has neither returned an outcome nor failed, some step of it can be taken.
\* The op stacks are finite, the functions' own code and the thunks all
\* terminate.
C14_AsStated == Finished \/ ENABLED Next

\* The thunk the loop selected, once it has been invoked.
InvokedThunk == fn.thunk[ops[invoked[1]].id]

\* C15: when the selected thunk throws a value whose serialization itself
\* throws, the invocation still returns a step result, whose error is the
\* raw thrown value; the failure of the serialization never leaves runFn.
C15_UnserializableErrorIsRaw ==
  (invoked # <<>> /\ InvokedThunk.kind = "throw"
     /\ InvokedThunk.val.t = "Hostile") =>
    /\ Returned
    /\ result.type = "multi-run"
    /\ result.hasError
    /\ ~result.hasData
    /\ result.error = InvokedThunk.val

\* C15 witness: thunk z, which throws a value serializeError cannot take,
\* was run and the invocation returned.
C15_Witness ==
  /\ Returned
  /\ invoked # <<>>
  /\ ops[invoked[1]].id = "z"
  /\ result.error = Hostile("cyclic")

\* C16: a user function that throws without having called any tool fails
\* the invocation with the error it threw; no outcome is returned, no
\* incoming op is read.
C16_ThrowWithoutToolsPropagates ==
  (CallsNoTool /\ fn.ret = "throw" /\ Finished) =>
    /\ pc = "failed"
    /\ ~Returned
    /\ result.type = "throw"
    /\ result.hasError /\ ~result.hasData
    /\ result.error = Err("fail")
    /\ result.ops = <<>>
    /\ readLog = <<>>

\* C16 witness: the function that only throws has failed an invocation that
\* was given a non-empty op stack.
C16_Witness ==
  /\ fn = FnPlainThrows
  /\ opStack # <<>>
  /\ pc = "failed"
  /\ result.error = Err("fail")

\* C17: the loop reads the incoming ops in order from index 0, each at most
\* once, and stops at the first one with the run flag: none after it is read,
\* and the step that reads it settles no op and leaves the active array
\* (state.tickOps) and state.pos as the ops before it left them; once the
\* invocation is over nothing is read or settled any more.
C17_ReplayInOrderUntilRun ==
  /\ [](\A i \in DOMAIN readLog : readLog[i] = i - 1)
  /\ [](FirstRun # 0 => Len(readLog) <= FirstRun)
  /\ [][ (pc = "loop" /\ NextOp.run) =>
           /\ pc' \in {"done", "failed"}
           /\ ops' = ops
           /\ state'.tickOps = state.tickOps
           /\ state'.pos = state.pos
           /\ pc' = "done" => state'.userFnToRun = OpAt(NextOp.opPosition) ]_vars
  /\ [][ Finished => (ops' = ops /\ readLog' = readLog /\ state' = state) ]_vars

\* C17 witness: the second incoming op selected a thunk after the first had
\* moved the active array to the op it settled, which is not the selected op.
C17_Witness ==
  /\ Returned
  /\ readLog = <<0, 1>>
  /\ invoked # <<>>
  /\ state.tickOps # 0
  /\ state.tickOps # invoked[1]
  /\ ops[state.tickOps].settled # "pending"

\* The tools the continuation of the settled op n calls, in call order.
Continuation(n) ==
  IF ops[n].settled = "fulfilled" THEN fn.thenOf[ops[n].id]
  ELSE fn.catchOf[ops[n].id]

\* The identifiers of the ops registered under op n, in order.
ChildIds(heap, n) ==
  [k \in 1..Len(heap[n].tickOps) |-> heap[heap[n].tickOps[k]].id]

\* C18: after an incoming op settled op n and made n the active array, the
\* loop yields once before reading the next incoming op, and during that
\* yield every tool called by the continuation of n is registered under n,
\* in call order, nothing being added at the root. The next incoming op, when
\* it names one of those children (the position of n followed by an index
\* below the number of tools the continuation calls), therefore finds an op:
\* the loop does not fail on it, unless it asks to run a child that has no
\* thunk.
C18_ChildrenRegisteredBeforeNextOp ==
  /\ [][ \A n \in DOMAIN ops :
           (pc = "tick" /\ pc' # "tick" /\ state.tickOps = n /\ ~ops[n].ran) =>
             /\ ops[n].settled # "pending"
             /\ state'.pos = state.pos + 1
             /\ ChildIds(ops', n) = ChildIds(ops, n) \o Continuation(n)
             /\ state'.allFoundOps = state.allFoundOps ]_vars
  /\ [][ (pc = "loop" /\ state.pos >= 1 /\ OpAt(opStack[state.pos].opPosition) # 0) =>
           LET p == opStack[state.pos].opPosition
               n == OpAt(p)
           IN \A j \in 0..(Len(Continuation(n)) - 1) :
                NextOp.opPosition = p \o <<j>> =>
                  /\ OpAt(NextOp.opPosition) # 0
                  /\ pc' = "failed" =>
                       (NextOp.run /\ ~ops[OpAt(NextOp.opPosition)].fn) ]_vars

\* C18 witness: the first incoming op rejected the op at [0], its catch
\* continuation registered step b under it during the yield, and the second
\* incoming op found b at [0, 0] and ran it.
C18_Witness ==
  /\ fn = FnParallel
  /\ Returned
  /\ readLog = <<0, 1>>
  /\ opStack[2].opPosition = <<0, 0>>
  /\ ops[1].settled = "rejected"
  /\ invoked # <<>>
  /\ ops[invoked[1]].id = "b"

\* The errors the replay loop itself throws.
LoopErrors ==
  {TypeError, Err("Bad stack; no fn to execute; re-execute pls"),
   Err("Bad stack; fn might have changed; re-execute")}

\* Every op the function registered is settled, each incoming op naming an
\* op of its own, and the function has run to its end.
EveryStepResolved ==
  /\ \A n \in DOMAIN ops : ops[n].settled # "pending"
  /\ \A i, j \in DOMAIN opStack :
       i # j => opStack[i].opPosition # opStack[j].opPosition
  /\ userFnPromise.status # "pending"

\* C19 as stated: whenever the function called a tool during the invocation,
\* the way it ends does not show in the outcome: what it returns is reported
\* nowhere (the outcome is never single) and an error it throws does not fail
\* the invocation, which fails only with the loop's own errors; and when the
\* op stack settles every op the function registers and the function has
\* ended, the outcome is a discovery of no op.
C19_AsStated ==
  /\ (ToolCalled /\ Finished) =>
       /\ result.type \in {"multi-run", "multi-discovery", "throw"}
       /\ result.type = "throw" => result.error \in LoopErrors
       /\ result.type = "multi-discovery" => (~result.hasData /\ ~result.hasError)
       /\ result.type = "multi-run" => invoked # <<>>
  /\ (ToolCalled /\ Returned /\ invoked = <<>> /\ EveryStepResolved) =>
       /\ result.type = "multi-discovery"
       /\ result.ops = <<>>

\* C19 for the functions that call a tool in their first synchronous pass
\* (state.hasUsedTools set when runFn reads it): for those the statement
\* holds.
C19_FirstPassTools ==
  /\ (toolsAtCheck /\ Finished) =>
       /\ result.type \in {"multi-run", "multi-discovery", "throw"}
       /\ result.type = "throw" => result.error \in LoopErrors
       /\ result.type = "multi-discovery" => (~result.hasData /\ ~result.hasError)
       /\ result.type = "multi-run" => invoked # <<>>
  /\ (toolsAtCheck /\ Returned /\ invoked = <<>> /\ EveryStepResolved) =>
       /\ result.type = "multi-discovery"
       /\ result.ops = <<>>

\* The op the selected thunk belongs to as a later invocation finds it,
\* pending, settled by an incoming op that carries the returned data at the
\* position of the run op.
Replayed ==
  SettleOp([ops[invoked[1]] EXCEPT !.settled = "pending", !.value = Undefined],
           DataAt(opStack[Len(readLog)].opPosition, result.data))

\* C20: a selected thunk that returns yields a step result with data, null
\* when the thunk returned undefined; that data, put in the data field of an
\* incoming op and replayed, fulfils the op with it and never rejects it.
C20_UndefinedIsNullAndReplays ==
  (invoked # <<>> /\ InvokedThunk.kind = "return") =>
    /\ Returned
    /\ result.type = "multi-run"
    /\ result.hasData /\ ~result.hasError
    /\ InvokedThunk.val = Undefined => result.data = Null
    /\ InvokedThunk.val # Undefined => result.data = InvokedThunk.val
    /\ Replayed.settled = "fulfilled"
    /\ Replayed.value = result.data

\* C20 witness: thunk c, which returns undefined, was run and null returned.
C20_Witness ==
  /\ Returned
  /\ invoked # <<>>
  /\ ops[invoked[1]].id = "c"
  /\ InvokedThunk.val = Undefined
  /\ result.data = Null

\* An incoming op with no run flag, no data and no error.
Bare(incomingOp) ==
  /\ ~incomingOp.run
  /\ incomingOp.data = Undefined
  /\ incomingOp.error = Undefined

\* C21: an incoming op with no run flag, no data and no error is not refused:
\* the pending op it names is rejected with undefined, the invocation does
\* not fail on it, and after the yield the loop goes on to the next incoming
\* op, or returns the discovery when there is none; an incoming op with both
\* data and an error fulfils the pending op it names with the data.
C21_MalformedOpsAreReplayed ==
  /\ [][ \A n \in DOMAIN ops :
           (Settles(n) /\ ops[n].settled = "pending") =>
             /\ Bare(NextOp) =>
                  /\ ops'[n].settled = "rejected"
                  /\ ops'[n].value = Undefined
                  /\ pc' = "tick"
                  /\ result' = result
                  /\ state'.pos = state.pos
             /\ (NextOp.data # Undefined /\ NextOp.error # Undefined) =>
                  /\ ops'[n].settled = "fulfilled"
                  /\ ops'[n].value = NextOp.data
                  /\ pc' = "tick" ]_vars
  /\ [][ (pc = "tick" /\ pc' # "tick" /\ state.pos >= 0
            /\ Bare(opStack[state.pos + 1])) =>
           /\ state'.pos = state.pos + 1
           /\ readLog' = readLog
           /\ pc' = (IF state.pos + 2 <= Len(opStack) THEN "loop" ELSE "done")
           /\ pc' = "done" => result'.type = "multi-discovery" ]_vars

\* C21 witness: the first incoming op carried nothing and rejected the op
\* at its position with undefined; the loop went on and read the second.
C21_Witness ==
  /\ Len(opStack) = 2
  /\ Bare(opStack[1])
  /\ readLog = <<0, 1>>
  /\ OpAt(opStack[1].opPosition) # 0
  /\ ops[OpAt(opStack[1].opPosition)].settled = "rejected"
  /\ ops[OpAt(opStack[1].opPosition)].value = Undefined
  /\ Returned

====
